---------------------------- MODULE Spec2Model ----------------------------
(***************************************************************************)
(* The two ScriptableObject tools of the Unity MCP server:                 *)
(*   tools/modify_scriptable_object.py  (Property Access family)           *)
(*   tools/create_scriptable_object.py  (Object Creation family)           *)
(* Each tool is an async handler: it validates its arguments, builds       *)
(* params_dict, hands connection.send_command to asyncio.to_thread and     *)
(* returns what the call gives back.                                       *)
(*                                                                         *)
(* Python values are written as strings: a str is itself, None is PyNone,  *)
(* an int n is "int n", a bool b is "bool b".                              *)
(***************************************************************************)
EXTENDS Integers, Sequences, FiniteSets, TLC

\* Number of dispatch calls that can be in flight at once.
NumCalls == 3
\* Worker threads of the executor behind asyncio.to_thread.
PoolSize == 2

Calls == 1..NumCalls

VARIABLES
    pc,          \* per call: "idle", "awaiting" (suspended at the await), "done"
    family,      \* per call: "none", "modify" or "create"
    args,        \* per call: the arguments the handler was called with
    responsive,  \* per call: whether the execution target ever answers it
    queue,       \* the executor's work queue: <<[call, commandName, params]>>
    running,     \* calls whose send_command is executing on a worker thread
    sent,        \* per call: the send_command invocations made for it
    future,      \* per call: the to_thread future
    result,      \* per call: the value returned to the caller (a set, {} if none)
    raised       \* per call: the exception propagated to the caller (a set)

vars == <<pc, family, args, responsive, queue, running, sent, future, result, raised>>

----------------------------------------------------------------------------
\* Python values

PyNone == "<None>"

\* `not v` for the values used here: None, "", 0 and False are falsy.
Falsy_IsNone(v) == v = PyNone

Falsy(v) == v \in {PyNone, "", "int 0", "bool False"}

\* str.lower() on the action strings of the model.
lower(s) ==
    CASE s = "Set_Property"         -> "set_property"
      [] s = "GET_INFO"             -> "get_info"
      [] s = "Remove_Array_Element" -> "remove_array_element"
      [] s = "Create_Custom"        -> "create_custom"
      [] s = "LIST_TYPES"           -> "list_types"
      [] OTHER                      -> s

\* The empty dict.
EmptyDict == [k \in {} |-> PyNone]

\* `if v is not None: params_dict[k] = v`
Opt_IfTruthy(k, v) == IF ~Falsy(v) THEN (k :> v) ELSE EmptyDict

Opt(k, v) == IF v # PyNone THEN (k :> v) ELSE EmptyDict

\* {"success": False, "message": msg, "data": None}
Failure_NoData(msg) == [success |-> FALSE, message |-> msg]

Failure(msg) == [success |-> FALSE, message |-> msg, data |-> PyNone]

\* f"{field} is required for action '{action}'"
RequiredFor(field, action) == field \o " is required for action '" \o action \o "'"

----------------------------------------------------------------------------
\* modify_scriptable_object: validation and params_dict

property_actions_NoInspect ==
    {"get_property", "set_property", "list_array_elements",
     "add_array_element", "remove_array_element", "set_array_element"}

property_actions ==
    {"get_property", "set_property", "list_array_elements", "inspect_array_detailed",
     "add_array_element", "remove_array_element", "set_array_element"}

set_actions_NoAdd == {"set_property", "set_array_element"}

set_actions == {"set_property", "add_array_element", "set_array_element"}

array_element_actions == {"remove_array_element", "set_array_element"}

\* The early returns of the handler, in the order of the code: the set holding
\* the failure envelope returned, or {} when every check passes.
ModifyValidation_IndexFirst(a) ==
    IF Falsy(a.asset_path)
    THEN {Failure("asset_path is required")}
    ELSE IF a.action \in property_actions /\ Falsy(a.property_name)
    THEN {Failure(RequiredFor("property_name", a.action))}
    ELSE IF a.action \in array_element_actions /\ a.index = PyNone
    THEN {Failure(RequiredFor("index", a.action))}
    ELSE IF a.action \in set_actions /\ a.property_value = PyNone
    THEN {Failure(RequiredFor("property_value", a.action))}
    ELSE {}

ModifyValidation(a) ==
    IF Falsy(a.asset_path)
    THEN {Failure("asset_path is required")}
    ELSE IF a.action \in property_actions /\ Falsy(a.property_name)
    THEN {Failure(RequiredFor("property_name", a.action))}
    ELSE IF a.action \in set_actions /\ a.property_value = PyNone
    THEN {Failure(RequiredFor("property_value", a.action))}
    ELSE IF a.action \in array_element_actions /\ a.index = PyNone
    THEN {Failure(RequiredFor("index", a.action))}
    ELSE {}

ModifyParams(a) ==
    ("action" :> lower(a.action)) @@ ("asset_path" :> a.asset_path)
        @@ Opt("property_name", a.property_name)
        @@ Opt("property_value", a.property_value)
        @@ Opt("property_type", a.property_type)
        @@ Opt("index", a.index)

ModifyCommandName == "HandleModifyScriptableObject"

----------------------------------------------------------------------------
\* create_scriptable_object: params_dict

CreateParams(a) ==
    ("action" :> lower(a.action))
        @@ Opt("name", a.name)
        @@ Opt("subfolder", a.subfolder)
        @@ Opt("type_name", a.type_name)
        @@ Opt("path", a.path)

CreateCommandName == "HandleCreateScriptableObject"

----------------------------------------------------------------------------
\* Arguments the tools are called with

ModifyActionInputs ==
    {"get_properties", "get_property", "set_property", "get_info",
     "list_array_elements", "inspect_array_detailed", "add_array_element",
     "remove_array_element", "set_array_element",
     "Set_Property", "GET_INFO", "Remove_Array_Element"}

ModifyInputs ==
    [action         : ModifyActionInputs,
     asset_path     : {PyNone, "", "Assets/Data/X.asset"},
     property_name  : {PyNone, "", "speed"},
     property_value : {PyNone, "int 0", "bool False", "", "int 5"},
     property_type  : {PyNone, "float"},
     index          : {PyNone, "int 0", "int 2"}]

CreateActionInputs ==
    {"create_ai_character", "create_ai_interaction", "create_custom", "list_types",
     "Create_Custom", "LIST_TYPES", "no_such_action"}

CreateInputs ==
    [action    : CreateActionInputs,
     name      : {PyNone, "", "Hero"},
     subfolder : {PyNone, "AD"},
     type_name : {PyNone, "", "Foo"},
     path      : {PyNone, "Assets/Foo.asset"}]

\* A few representative calls, for the runs with several calls in flight.
PoolModifyInputs ==
    {[action |-> "set_property", asset_path |-> "Assets/Data/X.asset",
      property_name |-> "speed", property_value |-> "int 5",
      property_type |-> PyNone, index |-> PyNone],
     [action |-> "get_property", asset_path |-> "Assets/Data/X.asset",
      property_name |-> PyNone, property_value |-> PyNone,
      property_type |-> PyNone, index |-> PyNone]}

PoolCreateInputs ==
    {[action |-> "create_custom", name |-> PyNone, subfolder |-> PyNone,
      type_name |-> "Foo", path |-> "Assets/Foo.asset"]}

\* What connection.send_command gives back: an envelope, or an exception.
SendResults ==
    {[success |-> TRUE,  message |-> "ok", data |-> "payload"],
     [success |-> FALSE, message |-> "Asset not found", data |-> PyNone]}

SendErrors == {"ConnectionError"}

\* The answers used in the runs with several calls in flight.
PoolSendResults == {[success |-> TRUE, message |-> "ok", data |-> "payload"]}

----------------------------------------------------------------------------
\* State

NoArgs == [action |-> PyNone]

\* The future asyncio.to_thread awaits: not created, pending, or finished with
\* a result or with an exception.
NoFuture == [state |-> "none", result |-> {}, exception |-> {}]

PendingFuture == [state |-> "pending", result |-> {}, exception |-> {}]

Init ==
    /\ pc = [t \in Calls |-> "idle"]
    /\ family = [t \in Calls |-> "none"]
    /\ args = [t \in Calls |-> NoArgs]
    /\ responsive = [t \in Calls |-> TRUE]
    /\ queue = <<>>
    /\ running = {}
    /\ sent = [t \in Calls |-> <<>>]
    /\ future = [t \in Calls |-> NoFuture]
    /\ result = [t \in Calls |-> {}]
    /\ raised = [t \in Calls |-> {}]

\* No call is in flight.
AllIdle == \A t \in Calls : pc[t] = "idle"

\* A worker thread of the executor is free to take the next work item.
WorkerAvailable_SingleThread == running = {}

WorkerAvailable == Cardinality(running) < PoolSize

----------------------------------------------------------------------------
\* The handlers, up to their await

\* `return {...}` before anything is sent.
ReturnLocally(t, envelopes) ==
    /\ pc' = [pc EXCEPT ![t] = "done"]
    /\ result' = [result EXCEPT ![t] = envelopes]
    /\ UNCHANGED <<queue, future>>

\* `await asyncio.to_thread(connection.send_command, commandName, params_dict)`:
\* the call is queued for a worker thread and the handler is suspended.
ToThread(t, commandName, params) ==
    /\ queue' = Append(queue, [call |-> t, commandName |-> commandName, params |-> params])
    /\ future' = [future EXCEPT ![t] = PendingFuture]
    /\ pc' = [pc EXCEPT ![t] = "awaiting"]
    /\ UNCHANGED result

\* modify_scriptable_object(action, asset_path, property_name, property_value,
\* property_type, index); r: whether the execution target will answer this call.
ModifyScriptableObject(t, a, r) ==
    /\ pc[t] = "idle"
    /\ family' = [family EXCEPT ![t] = "modify"]
    /\ args' = [args EXCEPT ![t] = a]
    /\ responsive' = [responsive EXCEPT ![t] = r]
    /\ IF ModifyValidation(a) # {}
       THEN ReturnLocally(t, ModifyValidation(a))
       ELSE ToThread(t, ModifyCommandName, ModifyParams(a))
    /\ UNCHANGED <<running, sent, raised>>

\* The same handler with the creation checks of the docstring enforced locally.
CreateScriptableObject_Validating(t, a, r) ==
    /\ pc[t] = "idle"
    /\ family' = [family EXCEPT ![t] = "create"]
    /\ args' = [args EXCEPT ![t] = a]
    /\ responsive' = [responsive EXCEPT ![t] = r]
    /\ IF lower(a.action) # "list_types" /\ Falsy(a.name)
       THEN ReturnLocally(t, {Failure(RequiredFor("name", a.action))})
       ELSE ToThread(t, CreateCommandName, CreateParams(a))
    /\ UNCHANGED <<running, sent, raised>>

\* create_scriptable_object(action, name, subfolder, type_name, path)
CreateScriptableObject(t, a, r) ==
    /\ pc[t] = "idle"
    /\ family' = [family EXCEPT ![t] = "create"]
    /\ args' = [args EXCEPT ![t] = a]
    /\ responsive' = [responsive EXCEPT ![t] = r]
    /\ ToThread(t, CreateCommandName, CreateParams(a))
    /\ UNCHANGED <<running, sent, raised>>

----------------------------------------------------------------------------
\* The worker threads, the transport and the resumption of the handler

\* A free worker thread takes the oldest work item and calls send_command.
WorkerStart(t) ==
    /\ queue # <<>>
    /\ Head(queue).call = t
    /\ WorkerAvailable
    /\ queue' = Tail(queue)
    /\ running' = running \cup {t}
    /\ sent' = [sent EXCEPT ![t] = Append(@, [commandName |-> Head(queue).commandName,
                                             params |-> Head(queue).params])]
    /\ UNCHANGED <<pc, family, args, responsive, future, result, raised>>

\* send_command returns envelope e; the worker thread is free again.
SendCommandReturns(t, e) ==
    /\ t \in running
    /\ responsive[t]
    /\ running' = running \ {t}
    /\ future' = [future EXCEPT ![t] = [state |-> "finished", result |-> {e}, exception |-> {}]]
    /\ UNCHANGED <<pc, family, args, responsive, queue, sent, result, raised>>

\* send_command raises x; the worker thread is free again.
SendCommandRaises(t, x) ==
    /\ t \in running
    /\ responsive[t]
    /\ running' = running \ {t}
    /\ future' = [future EXCEPT ![t] = [state |-> "finished", result |-> {}, exception |-> {x}]]
    /\ UNCHANGED <<pc, family, args, responsive, queue, sent, result, raised>>

\* The same resumption with a raised exception turned into a failure envelope.
Resume_Wrapping(t) ==
    /\ pc[t] = "awaiting"
    /\ future[t].state = "finished"
    /\ pc' = [pc EXCEPT ![t] = "done"]
    /\ result' = [result EXCEPT ![t] =
                     future[t].result \cup {Failure(x) : x \in future[t].exception}]
    /\ UNCHANGED <<raised, family, args, responsive, queue, running, sent, future>>

\* The event loop resumes the handler: `result = await ...; return result`, or
\* the exception of the call propagates out of the handler.
Resume(t) ==
    /\ pc[t] = "awaiting"
    /\ future[t].state = "finished"
    /\ pc' = [pc EXCEPT ![t] = "done"]
    /\ result' = [result EXCEPT ![t] = future[t].result]
    /\ raised' = [raised EXCEPT ![t] = future[t].exception]
    /\ UNCHANGED <<family, args, responsive, queue, running, sent, future>>

\* The caller has its answer; nothing of the call is kept.
Finish(t) ==
    /\ pc[t] = "done"
    /\ pc' = [pc EXCEPT ![t] = "idle"]
    /\ family' = [family EXCEPT ![t] = "none"]
    /\ args' = [args EXCEPT ![t] = NoArgs]
    /\ responsive' = [responsive EXCEPT ![t] = TRUE]
    /\ sent' = [sent EXCEPT ![t] = <<>>]
    /\ future' = [future EXCEPT ![t] = NoFuture]
    /\ result' = [result EXCEPT ![t] = {}]
    /\ raised' = [raised EXCEPT ![t] = {}]
    /\ UNCHANGED <<queue, running>>

\* send_command finishes one way or the other.
SendCommandCompletes(t) ==
    \/ \E e \in SendResults : SendCommandReturns(t, e)
    \/ \E x \in SendErrors : SendCommandRaises(t, x)

----------------------------------------------------------------------------
\* Specifications

\* One call at a time, over the whole input space.
Next ==
    \E t \in Calls :
        \/ AllIdle /\ \E a \in ModifyInputs, r \in BOOLEAN : ModifyScriptableObject(t, a, r)
        \/ AllIdle /\ \E a \in CreateInputs, r \in BOOLEAN : CreateScriptableObject(t, a, r)
        \/ WorkerStart(t)
        \/ \E e \in SendResults : SendCommandReturns(t, e)
        \/ \E x \in SendErrors : SendCommandRaises(t, x)
        \/ Resume(t)
        \/ Finish(t)

Spec == Init /\ [][Next]_vars

\* Any number of calls in flight, over representative inputs.
PoolNext ==
    \E t \in Calls :
        \/ \E a \in PoolModifyInputs, r \in BOOLEAN : ModifyScriptableObject(t, a, r)
        \/ \E a \in PoolCreateInputs, r \in BOOLEAN : CreateScriptableObject(t, a, r)
        \/ WorkerStart(t)
        \/ \E e \in PoolSendResults : SendCommandReturns(t, e)
        \/ \E x \in SendErrors : SendCommandRaises(t, x)
        \/ Resume(t)
        \/ Finish(t)

\* The executor's threads take queued work when free, a call the execution
\* target answers finishes, and the event loop resumes a handler whose future
\* is finished.
PoolFairness ==
    \A t \in Calls :
        /\ WF_vars(WorkerStart(t))
        /\ WF_vars(SendCommandCompletes(t))
        /\ WF_vars(Resume(t))

FairPoolSpec == Init /\ [][PoolNext]_vars /\ PoolFairness

----------------------------------------------------------------------------
\* Vocabulary of the properties

\* The requirement table as the specification states it.
NeedsPropertyName ==
    {"get_property", "set_property", "list_array_elements", "inspect_array_detailed",
     "add_array_element", "remove_array_element", "set_array_element"}

NeedsPropertyValue == {"set_property", "add_array_element", "set_array_element"}

NeedsIndex == {"remove_array_element", "set_array_element"}

ModifyOptional == {"property_name", "property_value", "property_type", "index"}

CreateOptional == {"name", "subfolder", "type_name", "path"}

\* A field that was given a non-empty value.
Supplied(v) == v \notin {PyNone, ""}

\* Call t ended in the handler itself, before anything was handed to a worker.
LocallyRejected(t) == pc[t] = "done" /\ future[t].state = "none"

\* Call t returned exactly the failure envelope with this message, and the
\* transport was not invoked for it.
LocalFailure(t, msg) ==
    /\ LocallyRejected(t)
    /\ result[t] = {[success |-> FALSE, message |-> msg, data |-> PyNone]}
    /\ raised[t] = {}
    /\ sent[t] = <<>>
    /\ \A i \in 1..Len(queue) : queue[i].call # t

IsEnvelope(e) ==
    /\ DOMAIN e = {"success", "message", "data"}
    /\ e.success \in BOOLEAN

\* Every params dict handed over for call t: still queued, or already sent.
SubmittedParams(t) ==
    {queue[i].params : i \in {j \in 1..Len(queue) : queue[j].call = t}}
        \cup {sent[t][i].params : i \in 1..Len(sent[t])}

\* Every command name handed over for call t.
SubmittedCommands(t) ==
    {queue[i].commandName : i \in {j \in 1..Len(queue) : queue[j].call = t}}
        \cup {sent[t][i].commandName : i \in 1..Len(sent[t])}

----------------------------------------------------------------------------
\* C1: a modify_scriptable_object call whose asset_path is absent or empty
\* returns {success: false, message: "asset_path is required", data: null},
\* whatever the other arguments, and send_command is never invoked.
C1_AssetPathRequired ==
    \A t \in Calls :
        (family[t] = "modify" /\ args[t].asset_path \in {PyNone, ""})
            => LocalFailure(t, "asset_path is required")

\* An otherwise complete set_property call with an empty asset_path has ended.
C1_Witness ==
    \E t \in Calls :
        /\ family[t] = "modify"
        /\ pc[t] = "done"
        /\ args[t].asset_path = ""
        /\ args[t].action = "set_property"
        /\ args[t].property_name = "speed"
        /\ args[t].property_value = "int 5"

\* C2: with a non-empty asset_path and no property_name, every action except
\* get_properties and get_info returns "property_name is required for action
\* '<action>'" without invoking send_command; get_properties and get_info are
\* not rejected locally.
C2_PropertyNameRequired ==
    \A t \in Calls :
        (family[t] = "modify" /\ Supplied(args[t].asset_path)
                /\ args[t].property_name = PyNone)
            => /\ args[t].action \in NeedsPropertyName
                  => LocalFailure(t, "property_name is required for action '"
                                        \o args[t].action \o "'")
               /\ args[t].action \in {"get_properties", "get_info"}
                  => ~LocallyRejected(t)

\* inspect_array_detailed was called with an asset_path and no property_name.
C2_Witness ==
    \E t \in Calls :
        /\ family[t] = "modify"
        /\ pc[t] = "done"
        /\ args[t].action = "inspect_array_detailed"
        /\ Supplied(args[t].asset_path)
        /\ args[t].property_name = PyNone

\* C3: an action in any letter case is lower-cased in the transmitted params
\* and before the required-field lookup: a mixed-case action is rejected
\* locally exactly when its lower-case form would be.
C3_LowerCasedBeforeLookup ==
    \A t \in Calls :
        family[t] = "modify" =>
            /\ \A p \in SubmittedParams(t) : p["action"] = lower(args[t].action)
            /\ (future[t].state = "none")
                  <=> (ModifyValidation([args[t] EXCEPT !.action = lower(@)]) # {})

\* C4 as stated: every dispatch that has ended, locally or after the execution
\* target answered or failed, returned exactly one {success, message, data}
\* value and raised nothing.
C4_AlwaysEnvelope ==
    \A t \in Calls :
        pc[t] = "done" =>
            /\ raised[t] = {}
            /\ \E e \in result[t] : result[t] = {e} /\ IsEnvelope(e)

\* C4 amended: a dispatch that ended returned exactly one {success, message,
\* data} value, unless send_command raised: then that exception, and no value,
\* reaches the caller. A validation failure is never raised.
C4_EnvelopeUnlessTransportRaises ==
    \A t \in Calls :
        pc[t] = "done" =>
            /\ raised[t] = {} => \E e \in result[t] : result[t] = {e} /\ IsEnvelope(e)
            /\ raised[t] # {} =>
                  /\ result[t] = {}
                  /\ sent[t] # <<>>
                  /\ raised[t] = future[t].exception
            /\ LocallyRejected(t) => raised[t] = {}

\* One dispatch ended with a failure the execution target answered with.
C4_Witness ==
    \E t \in Calls :
        /\ pc[t] = "done"
        /\ sent[t] # <<>>
        /\ \E e \in result[t] : ~e.success

\* C5: the keys of every transmitted params dict are action (and asset_path
\* for modify) plus exactly the optional fields that were not None, each with
\* the value supplied (0, False and "" included); set_property with
\* property_name "speed", property_value 5 and asset_path "Assets/Data/X.asset"
\* transmits exactly {action, asset_path, property_name, property_value}.
C5_ParamsAreTheSuppliedFields ==
    \A t \in Calls : \A p \in SubmittedParams(t) :
        LET mandatory == IF family[t] = "modify" THEN {"action", "asset_path"} ELSE {"action"}
            optional  == IF family[t] = "modify" THEN ModifyOptional ELSE CreateOptional
        IN  /\ DOMAIN p = mandatory \cup {k \in optional : args[t][k] # PyNone}
            /\ \A k \in DOMAIN p : p[k] # PyNone
            /\ \A k \in DOMAIN p \ {"action"} : p[k] = args[t][k]
            /\ args[t] = [action |-> "set_property", asset_path |-> "Assets/Data/X.asset",
                          property_name |-> "speed", property_value |-> "int 5",
                          property_type |-> PyNone, index |-> PyNone]
                  => p = [action |-> "set_property", asset_path |-> "Assets/Data/X.asset",
                          property_name |-> "speed", property_value |-> "int 5"]

\* send_command was invoked for a call that supplied property_value 0 and an
\* empty property_name and left property_type and index out.
C5_Witness ==
    \E t \in Calls :
        /\ family[t] = "modify"
        /\ sent[t] # <<>>
        /\ args[t].property_value = "int 0"
        /\ args[t].property_name = ""
        /\ args[t].property_type = PyNone
        /\ args[t].index = PyNone

\* C7: with asset_path and property_name supplied, a call is rejected locally
\* exactly when its action is set_property, add_array_element or
\* set_array_element and property_value is None ("property_value is required
\* for action '<action>'"), or its action is remove_array_element or
\* set_array_element, any required property_value is there, and index is None
\* ("index is required for action '<action>'"); send_command is not invoked.
C7_ValueAndIndexRequired ==
    \A t \in Calls :
        (family[t] = "modify" /\ Supplied(args[t].asset_path)
                /\ Supplied(args[t].property_name))
            => LET a == args[t]
                   noValue == a.action \in NeedsPropertyValue /\ a.property_value = PyNone
                   noIndex == a.action \in NeedsIndex /\ a.index = PyNone
               IN  /\ noValue =>
                        LocalFailure(t, "property_value is required for action '"
                                            \o a.action \o "'")
                   /\ (noIndex /\ ~noValue) =>
                        LocalFailure(t, "index is required for action '"
                                            \o a.action \o "'")
                   /\ (~noValue /\ ~noIndex) => future[t].state # "none"

\* remove_array_element was called with asset_path and property_name and no
\* index.
C7_Witness ==
    \E t \in Calls :
        /\ family[t] = "modify"
        /\ pc[t] = "done"
        /\ args[t].action = "remove_array_element"
        /\ Supplied(args[t].asset_path)
        /\ Supplied(args[t].property_name)
        /\ args[t].index = PyNone

\* The required fields call t is missing, by the specification's table.
MissingFields(t) ==
    LET a == args[t]
    IN  (IF ~Supplied(a.asset_path) THEN {1} ELSE {})
        \cup (IF a.action \in NeedsPropertyName /\ ~Supplied(a.property_name) THEN {2} ELSE {})
        \cup (IF a.action \in NeedsPropertyValue /\ a.property_value = PyNone THEN {3} ELSE {})
        \cup (IF a.action \in NeedsIndex /\ a.index = PyNone THEN {4} ELSE {})

\* The message for the field at a position of the order asset_path,
\* property_name, property_value, index.
MessageOf(position, action) ==
    CASE position = 1 -> "asset_path is required"
      [] position = 2 -> "property_name is required for action '" \o action \o "'"
      [] position = 3 -> "property_value is required for action '" \o action \o "'"
      [] position = 4 -> "index is required for action '" \o action \o "'"

\* C8: when several required fields are missing at once the message names the
\* earliest one in the order asset_path, property_name, property_value, index.
C8_EarliestMissingFieldReported ==
    \A t \in Calls :
        (family[t] = "modify" /\ MissingFields(t) # {})
            => LET first == CHOOSE i \in MissingFields(t) :
                                \A j \in MissingFields(t) : i <= j
               IN  LocalFailure(t, MessageOf(first, args[t].action))

\* set_array_element was called with asset_path and property_name only: both
\* property_value and index are missing.
C8_Witness ==
    \E t \in Calls :
        /\ family[t] = "modify"
        /\ pc[t] = "done"
        /\ args[t].action = "set_array_element"
        /\ MissingFields(t) = {3, 4}

\* C9: send_command is invoked at most once per dispatch, never for a dispatch
\* rejected locally, and exactly once, under the family's command name, for a
\* dispatch that ended after submission; what the caller gets is what
\* send_command gave, unchanged.
C9_SingleSubmission ==
    \A t \in Calls :
        /\ Len(sent[t]) + Cardinality({i \in 1..Len(queue) : queue[i].call = t}) <= 1
        /\ future[t].state = "none" => sent[t] = <<>>
        /\ \A c \in SubmittedCommands(t) :
              c = IF family[t] = "modify" THEN "HandleModifyScriptableObject"
                                          ELSE "HandleCreateScriptableObject"
        /\ (pc[t] = "done" /\ ~LocallyRejected(t)) =>
              /\ Len(sent[t]) = 1
              /\ result[t] = future[t].result
              /\ raised[t] = future[t].exception
              /\ result[t] \cup raised[t] # {}

\* A dispatch ended with the failure answer of the execution target, after
\* one invocation of send_command.
C9_Witness ==
    \E t \in Calls :
        /\ pc[t] = "done"
        /\ Len(sent[t]) = 1
        /\ result[t] = {[success |-> FALSE, message |-> "Asset not found", data |-> PyNone]}

\* C10: create_scriptable_object validates nothing locally: every call, for
\* any action and any combination of name, subfolder, type_name and path, is
\* submitted under HandleCreateScriptableObject; create_custom with type_name
\* "Foo" and path "Assets/Foo.asset" transmits exactly {action, type_name, path}.
C10_CreateNeverRejectedLocally ==
    \A t \in Calls :
        family[t] = "create" =>
            /\ future[t].state # "none"
            /\ Cardinality(SubmittedParams(t)) = 1
            /\ SubmittedCommands(t) = {"HandleCreateScriptableObject"}
            /\ pc[t] = "done" => Len(sent[t]) = 1
            /\ args[t] = [action |-> "create_custom", name |-> PyNone, subfolder |-> PyNone,
                          type_name |-> "Foo", path |-> "Assets/Foo.asset"]
                  => SubmittedParams(t) = {[action |-> "create_custom", type_name |-> "Foo",
                                            path |-> "Assets/Foo.asset"]}

\* create_ai_character without a name went through send_command.
C10_Witness ==
    \E t \in Calls :
        /\ family[t] = "create"
        /\ args[t].action = "create_ai_character"
        /\ args[t].name = PyNone
        /\ pc[t] = "done"
        /\ Len(sent[t]) = 1

\* Calls whose send_command occupies a worker thread and will never return.
HungCalls == {t \in running : ~responsive[t]}

\* C6 as stated: however many calls are hung, every dispatch suspended at its
\* await whose execution-target call is one the target answers completes.
C6_NeverDelayedByHungCalls ==
    \A t \in Calls : (pc[t] = "awaiting" /\ responsive[t]) ~> (pc[t] = "done")

\* C6 amended: as long as the hung calls are fewer than the executor's worker
\* threads, every dispatch suspended at its await whose execution-target call
\* is one the target answers completes.
C6_NotDelayedWhileAWorkerIsLeft ==
    [](Cardinality(HungCalls) < PoolSize)
        => \A t \in Calls : (pc[t] = "awaiting" /\ responsive[t]) ~> (pc[t] = "done")

\* A dispatch has completed through send_command while another call is hung
\* on a worker thread.
C6_Witness ==
    \E h \in HungCalls : \E t \in Calls \ {h} :
        /\ pc[t] = "done"
        /\ Len(sent[t]) = 1
        /\ result[t] \cup raised[t] # {}

=============================================================================
